---- MODULE Spec2Model ----
(***************************************************************************)
(* A model of xblock/plugin.py: the plugin registry (Plugin.load_class,    *)
(* Plugin.load_classes, Plugin.register_temp_plugin), the process-wide     *)
(* PLUGIN_CACHE and the per-class extra_entry_points lists.                *)
(*                                                                         *)
(* Python objects that are shared by reference (the cache dicts, the       *)
(* extra_entry_points lists) live in heaps, so that rebinding a name and   *)
(* mutating an object are different things, as they are in the source.     *)
(* An address names the role of an object (the lazy list of a class, the   *)
(* list in the __dict__ of a class, a list only a generator still holds):  *)
(* object identity shows only through aliasing, which the roles keep.      *)
(***************************************************************************)
EXTENDS Integers, Sequences, FiniteSets, TLC

\* ------------------------------------------------------------------ bounds

\* Deepest nesting of register_temp_plugin scopes that is explored, where the
\* scopes are what is looked at (MaxDepth) and where the lookups are
\* (LookupDepth).
MaxDepth == 2
LookupDepth == 1

\* ------------------------------------------------------- strings, lower()

\* A Python str is a sequence of one-character strings.
UpperToLower ==
    [c \in {"A", "B", "D", "F", "H", "M", "S", "T", "X"} |->
        CASE c = "A" -> "a" [] c = "B" -> "b" [] c = "D" -> "d"
          [] c = "F" -> "f" [] c = "H" -> "h" [] c = "M" -> "m"
          [] c = "S" -> "s" [] c = "T" -> "t" [] c = "X" -> "x"]

\* str.lower(): every cased character is replaced by its lower-case form.
lower(s) ==
    [i \in 1..Len(s) |-> IF s[i] \in DOMAIN UpperToLower THEN UpperToLower[s[i]] ELSE s[i]]

\* ------------------------------------------------ the classes of the process

\* Registry classes: subclasses of Plugin that set entry_point.  SubBlock is a
\* subclass of XBlock and inherits its entry_point.
Classes == {"XBlock", "SubBlock", "XBlockAside"}

\* cls.__mro__ up to, not including, Plugin.
MRO(cls) ==
    CASE cls = "XBlock"      -> <<"XBlock">>
      [] cls = "SubBlock"    -> <<"SubBlock", "XBlock">>
      [] cls = "XBlockAside" -> <<"XBlockAside">>

\* cls.entry_point: the category (entry point group) of the class.
entry_point(cls) ==
    CASE cls = "XBlock"      -> "xblock.v1"
      [] cls = "SubBlock"    -> "xblock.v1"
      [] cls = "XBlockAside" -> "xblock_asides.v1"

\* Implementation types an entry point may load, the temporary classes A and B
\* given to register_temp_plugin, and a caller's default.
Types == {"HtmlBlock", "DupOne", "DupTwo", "Thing", "AsideA", "A", "B", "DefaultBlock"}

\* The registry classes each type is a subclass of.
Bases(type) ==
    CASE type = "HtmlBlock"    -> {"XBlock"}
      [] type = "DupOne"       -> {"XBlock"}
      [] type = "DupTwo"       -> {"XBlock"}
      [] type = "Thing"        -> {}
      [] type = "AsideA"       -> {"XBlockAside"}
      [] type = "A"            -> {"XBlock", "SubBlock"}
      [] type = "B"            -> {"XBlock"}
      [] type = "DefaultBlock" -> {"XBlock"}

\* issubclass(result, cls)
issubclass(type, cls) == cls \in Bases(type)

\* class_.__name__
ClassName(type) ==
    CASE type = "A" -> <<"A">>
      [] type = "B" -> <<"B">>

\* ------------------------------------------------------------ entry points

\* An EntryPoint: its name, what load() gives (a type, or "ImportError" when
\* load() raises) and its distribution.
EP(name, loads, dist) == [name |-> name, loads |-> loads, dist |-> dist]

NoEntryPoint == EP(<<>>, "None", "None")

\* The installed distributions' entry points, in the order pkg_resources
\* walks them.
Installed(group) ==
    CASE group = "xblock.v1" ->
            << EP(<<"h">>, "HtmlBlock", "dist1"),
               EP(<<"d">>, "DupOne", "dist1"),
               EP(<<"d">>, "DupTwo", "dist2"),
               EP(<<"t">>, "Thing", "dist2"),
               EP(<<"x">>, "ImportError", "dist2") >>
      [] group = "xblock_asides.v1" ->
            << EP(<<"s">>, "AsideA", "dist1") >>

\* pkg_resources.iter_entry_points(group, name): the entries of the group, all
\* of them when name is None (<<>> here), else those whose name is exactly name.
iter_entry_points(group, name) ==
    SelectSeq(Installed(group), LAMBDA e : name = <<>> \/ e.name = name)

\* ------------------------------------------------------------------- state

VARIABLES
    dicts,          \* heap of dict objects: address -> [key -> type]
    PLUGIN_CACHE,   \* the module global: the address of the current cache dict
    lists,          \* heap of list objects: address -> sequence of (identifier, entry_point)
    own,            \* cls.__dict__["extra_entry_points"]: an address, or NoAddr
    plugin_name,    \* the plugin_name attribute of each type (<<>> when unset)
    stack,          \* the active _inner frames, outermost first
    gen,            \* the load_classes generator the caller holds
    last,           \* the latest call: its arguments and what it gave back
    returned        \* what load_class has returned since the latest scope entry or exit

vars == <<dicts, PLUGIN_CACHE, lists, own, plugin_name, stack, gen, last, returned>>

EmptyDict == [k \in {} |-> "None"]

\* The list the class_lazy descriptor of Plugin holds for an owner class: the
\* empty list it makes when the attribute is first read through that class.
LazyAddr(cls) == <<"lazy", cls>>

\* The list bound in cls.__dict__ by an assignment to cls.extra_entry_points.
OwnAddr(cls) == <<"own", cls>>

\* No list: the attribute is unset, the iterator is not bound.
NoAddr == <<"unset", "None">>

\* A list that only the generator's list iterator still refers to.
GenAddr == <<"gen", "None">>

Addrs == {LazyAddr(c) : c \in Classes} \cup {OwnAddr(c) : c \in Classes} \cup {GenAddr}

\* The address of the object cls.extra_entry_points evaluates to: the first
\* class of the MRO that has the attribute in its __dict__, else the lazy
\* list of the class the attribute is read through.
ExtraRefIn(o, cls) ==
    LET mro == MRO(cls)
        hit == {i \in 1..Len(mro) : o[mro[i]] # NoAddr}
    IN IF hit = {} THEN LazyAddr(cls)
       ELSE o[mro[CHOOSE i \in hit : \A j \in hit : i <= j]]

ExtraRef(cls) == ExtraRefIn(own, cls)

\* The content of cls.extra_entry_points and of PLUGIN_CACHE.
Extras(cls) == lists[ExtraRef(cls)]
Cache == dicts[PLUGIN_CACHE]

\* A fresh address of the heap of dicts.
Fresh(heap) ==
    CHOOSE a \in 1..(Cardinality(DOMAIN heap) + 1) :
        a \notin DOMAIN heap /\ \A b \in 1..(a - 1) : b \in DOMAIN heap

Restrict(heap, live) == [a \in (DOMAIN heap) \cap live |-> heap[a]]

\* ------------------------------------------------------------- selection

NoPayload == [name |-> <<>>, classes |-> <<>>]

\* What a selector gives: an entry point (kind "ok"), or the exception raised.
Selected(ep) == [kind |-> "ok", ep |-> ep, payload |-> NoPayload]
Raised(kind, payload) == [kind |-> kind, ep |-> NoEntryPoint, payload |-> payload]

\* AmbiguousPluginError(all_entry_points): the constructor loads every entry
\* point to describe it, so a failing load() raises from the constructor;
\* else the message names all_entry_points[0].name and every loaded class.
AmbiguousPluginError(all_entry_points) ==
    IF \E i \in 1..Len(all_entry_points) : all_entry_points[i].loads = "ImportError"
    THEN Raised("ImportError", NoPayload)
    ELSE Raised("AmbiguousPluginError",
                [name    |-> all_entry_points[1].name,
                 classes |-> [i \in 1..Len(all_entry_points) |-> all_entry_points[i].loads]])

default_select(identifier, all_entry_points) ==
    IF all_entry_points = <<>>
    THEN Raised("PluginMissingError", NoPayload)
    ELSE IF Len(all_entry_points) > 1
         THEN AmbiguousPluginError(all_entry_points)
         ELSE Selected(all_entry_points[1])

\* A caller's selector, of the form the docstring of load_class asks for: it
\* takes the first entry point, and raises PluginMissingError when none.
first_select(identifier, all_entry_points) ==
    IF all_entry_points = <<>>
    THEN Raised("PluginMissingError", NoPayload)
    ELSE Selected(all_entry_points[1])

\* The select argument of load_class: "None" (default_select) or "first".
Selectors == {"None", "first"}

ApplySelect(select, identifier, all_entry_points) ==
    IF select = "None"
    THEN default_select(identifier, all_entry_points)
    ELSE first_select(identifier, all_entry_points)

\* --------------------------------------------------------------- load_class

\* _load_class_entry_point: load the entry point and stamp its name on the
\* class.  ok is FALSE when load() raises.
_load_class_entry_point(entry, names) ==
    IF entry.loads = "ImportError"
    THEN [ok |-> FALSE, class_ |-> "None", names |-> names]
    ELSE [ok |-> TRUE, class_ |-> entry.loads,
          names |-> [names EXCEPT ![entry.loads] = entry.name]]

\* A key made of the identifier as the caller spelled it.
CacheKeyAsSpelled(cls, identifier) == <<entry_point(cls), identifier>>

\* The key load_class looks up and writes in PLUGIN_CACHE: the entry point
\* group of the class and the lower-cased identifier.
CacheKey(cls, identifier) == <<entry_point(cls), lower(identifier)>>

\* The candidates of an identifier: the installed entry points of that name,
\* then the extra entry points registered under it.
all_entry_points_of(cls, identifier, extras) ==
    LET matching == SelectSeq(extras, LAMBDA x : identifier = x.identifier)
    IN iter_entry_points(entry_point(cls), identifier)
       \o [i \in 1..Len(matching) |-> matching[i].entry_point]

\* An end of load_class that checks the type of what it has just loaded only.
CheckResultOfLoad(cls, key, cache, names, queried) ==
    LET result == cache[key]
    IN [outcome |-> IF queried /\ ~issubclass(result, cls) THEN "TypeError" ELSE "return",
        result  |-> result,
        cache   |-> cache,
        names   |-> names,
        queried |-> queried,
        payload |-> NoPayload]

\* An end of load_class that drops the entry it rejects.
CheckResultEvicts(cls, key, cache, names, queried) ==
    LET result == cache[key]
        ok     == issubclass(result, cls)
    IN [outcome |-> IF ok THEN "return" ELSE "TypeError",
        result  |-> result,
        cache   |-> IF ok THEN cache ELSE [k \in DOMAIN cache \ {key} |-> cache[k]],
        names   |-> names,
        queried |-> queried,
        payload |-> NoPayload]

\* The end of load_class: read the cache entry and check its type.
CheckResult(cls, key, cache, names, queried) ==
    LET result == cache[key]
    IN [outcome |-> IF issubclass(result, cls) THEN "return" ELSE "TypeError",
        result  |-> result,
        cache   |-> cache,
        names   |-> names,
        queried |-> queried,
        payload |-> NoPayload]

\* A call of load_class that ends before the cache is written.
Early(outcome, result, cache, names, payload) ==
    [outcome |-> outcome, result |-> result, cache |-> cache, names |-> names,
     queried |-> TRUE, payload |-> payload]

\* A lookup that finds the key only when a single candidate can have stored it.
InCacheOfOneCandidate(key, cache) ==
    key \in DOMAIN cache /\ Len(iter_entry_points(key[1], key[2])) <= 1

\* A lookup that never finds the key.
InCacheNever(key, cache) == FALSE

\* key not in PLUGIN_CACHE is false
InCache(key, cache) == key \in DOMAIN cache

\* An except clause that stores the default it returns.
except_StoresDefault(default, key, cache, names) ==
    IF default # "None"
    THEN Early("return_default", default, (key :> default) @@ cache, names, NoPayload)
    ELSE Early("PluginMissingError", "None", cache, names, NoPayload)

\* The except clause: select raised PluginMissingError.  The default, when
\* there is one, is returned and nothing is stored.
except_PluginMissingError(default, key, cache, names) ==
    IF default # "None"
    THEN Early("return_default", default, cache, names, NoPayload)
    ELSE Early("PluginMissingError", "None", cache, names, NoPayload)

\* cls.load_class(identifier, default, select) on the given cache content,
\* extra entry points and plugin_name attributes: how the call ends
\* ("return", "return_default" or the exception raised), what it returns, the
\* cache and the attributes it leaves, and whether it called iter_entry_points.
load_class(cls, identifier, default, select, cache, extras, names) ==
    LET key   == CacheKey(cls, identifier)
        ident == key[2]
    IN IF InCache(key, cache)
       THEN CheckResult(cls, key, cache, names, FALSE)
       ELSE LET all == all_entry_points_of(cls, ident, extras)
                sel == ApplySelect(select, ident, all)
            IN IF sel.kind = "PluginMissingError"
               THEN except_PluginMissingError(default, key, cache, names)
               ELSE IF sel.kind # "ok"
               THEN Early(sel.kind, "None", cache, names, sel.payload)
               ELSE LET loaded == _load_class_entry_point(sel.ep, names)
                    IN IF ~loaded.ok
                       THEN Early("ImportError", "None", cache, names, NoPayload)
                       ELSE CheckResult(cls, key, (key :> loaded.class_) @@ cache,
                                        loaded.names, TRUE)

\* ------------------------------------------------------- the observed call

\* The record of a call: the operation, its arguments, how it ended (outcome),
\* what it returned or yielded (result), whether it called iter_entry_points
\* (queried), what the exception carries (payload), the cache content before
\* the call (before), what an earlier load_class of the same class and
\* normalized identifier returned since the latest scope boundary and whether
\* that was a loaded class or the caller's default (prior, prior_outcome), and,
\* for a scope exit, the contents the scope found when it was entered.
Call(op, cls, identifier, default, select, outcome, result) ==
    [op |-> op, cls |-> cls, identifier |-> identifier, default |-> default,
     select |-> select, outcome |-> outcome, result |-> result,
     queried |-> FALSE, payload |-> NoPayload, before |-> EmptyDict,
     prior |-> "None", prior_outcome |-> "None", pre_extras |-> <<>>, pre_cache |-> EmptyDict]

\* The generator of load_classes: where its body stands (status), the
\* arguments of the call, how many installed entry points it has taken (pos),
\* the list its list iterator is bound to and the iterator's index (ref, idx),
\* the candidates it has taken (seen), the pairs it has yielded (out) and, once
\* it has returned, the candidates there were (all).
NoGen ==
    [status |-> "none", cls |-> "None", fail_silently |-> TRUE, pos |-> 0,
     ref |-> NoAddr, idx |-> 0, seen |-> <<>>, out |-> <<>>, all |-> <<>>]

Init ==
    /\ dicts = (1 :> EmptyDict)
    /\ PLUGIN_CACHE = 1
    /\ lists = [a \in Addrs |-> <<>>]
    /\ own = [c \in Classes |-> NoAddr]
    /\ plugin_name = [t \in Types |-> <<>>]
    /\ stack = <<>>
    /\ gen = NoGen
    /\ last = Call("init", "None", <<>>, "None", "None", "None", "None")
    /\ returned = EmptyDict

\* The heap of lists once the generator is g: the list that only the
\* generator held is freed when the generator lets go of it.
Collect(heap, g) ==
    [a \in Addrs |-> IF a = GenAddr /\ g.ref # GenAddr THEN <<>> ELSE heap[a]]

\* The dict objects something still refers to: the global and the old_cache of
\* the active frames.
LiveDicts(global, frames) ==
    {global} \cup {frames[i].old_cache : i \in 1..Len(frames)}

\* cls.load_class(identifier, default, select)
LoadClass(cls, identifier, default, select) ==
    LET r   == load_class(cls, identifier, default, select, Cache, Extras(cls), plugin_name)
        who == <<cls, lower(identifier)>>
    IN /\ dicts' = [dicts EXCEPT ![PLUGIN_CACHE] = r.cache]
       /\ plugin_name' = r.names
       /\ last' = [Call("load_class", cls, identifier, default, select, r.outcome, r.result)
                     EXCEPT !.queried = r.queried,
                            !.payload = r.payload,
                            !.before = Cache,
                            !.prior = IF who \in DOMAIN returned
                                      THEN returned[who].result ELSE "None",
                            !.prior_outcome = IF who \in DOMAIN returned
                                              THEN returned[who].outcome ELSE "None"]
       /\ returned' = IF r.outcome \in {"return", "return_default"}
                      THEN (who :> [outcome |-> r.outcome, result |-> r.result]) @@ returned
                      ELSE returned
       /\ UNCHANGED <<PLUGIN_CACHE, lists, own, stack, gen>>

\* The identifier register_temp_plugin registers class_ under.
TempIdentifier(class_, identifier) ==
    IF identifier = "None" THEN lower(ClassName(class_)) ELSE identifier

\* The entry point register_temp_plugin builds: a Mock whose load() returns
\* class_, named by the identifier, of distribution dist.
TempEntryPoint(class_, identifier) ==
    EP(TempIdentifier(class_, identifier), class_, "xblock")

\* list(cls.extra_entry_points): a new list of the same content.  Only the
\* frame refers to it until the finally clause binds it to the class, so the
\* frame holds it by value.
Copy(content) == content

\* An entry that goes on with the cache content it found, in a new dict.
EnteredKeepsCache(extras, cache, item) ==
    [extra_entry_points |-> Append(extras, item), PLUGIN_CACHE |-> cache]

\* What _inner makes before it calls func: the content of the list the class
\* shows, with the item appended, and the content of the new dict PLUGIN_CACHE
\* is bound to.
Entered(extras, cache, item) ==
    [extra_entry_points |-> Append(extras, item), PLUGIN_CACHE |-> EmptyDict]

\* cls.register_temp_plugin(class_, identifier)(func) is called: _inner runs up
\* to the call of func.  It copies the list, keeps the cache dict, appends to
\* the list the class shows and binds PLUGIN_CACHE to a new dict.
Enter(cls, class_, identifier) ==
    LET ep    == TempEntryPoint(class_, identifier)
        new   == Fresh(dicts)
        frame == [cls |-> cls, identifier |-> ep.name, entry_point |-> ep,
                  old |-> Copy(Extras(cls)), old_cache |-> PLUGIN_CACHE,
                  pre_extras |-> Extras(cls), pre_cache |-> Cache]
        made  == Entered(Extras(cls), Cache, [identifier |-> ep.name, entry_point |-> ep])
    IN /\ lists' = [lists EXCEPT ![ExtraRef(cls)] = made.extra_entry_points]
       /\ dicts' = (new :> made.PLUGIN_CACHE) @@ dicts
       /\ PLUGIN_CACHE' = new
       /\ stack' = Append(stack, frame)
       /\ last' = Call("enter", cls, ep.name, "None", "None", "None", class_)
       /\ returned' = EmptyDict
       /\ UNCHANGED <<own, plugin_name, gen>>

\* A finally clause that leaves PLUGIN_CACHE as the scope made it.
RestoredKeepsCache(frame) ==
    [extra_entry_points |-> frame.old, PLUGIN_CACHE |-> PLUGIN_CACHE]

\* A finally clause that leaves the list of the class as the scope made it.
RestoredKeepsExtras(frame) ==
    [extra_entry_points |-> Extras(frame.cls), PLUGIN_CACHE |-> frame.old_cache]

\* What the finally clause of _inner binds: the class attribute and the global.
Restored(frame) == [extra_entry_points |-> frame.old, PLUGIN_CACHE |-> frame.old_cache]

\* func returns or raises (how): the finally clause of the innermost _inner
\* runs.  The list that was in the __dict__ of the class loses that reference:
\* it lives on only if the generator iterates over it.  Dicts nothing refers
\* to any more are freed.
Exit(how) ==
    /\ stack # <<>>
    /\ LET frame == stack[Len(stack)]
           rest  == SubSeq(stack, 1, Len(stack) - 1)
           back  == Restored(frame)
           here  == OwnAddr(frame.cls)
           held  == gen.ref = here
       IN /\ own' = [own EXCEPT ![frame.cls] = here]
          /\ lists' = [lists EXCEPT ![here] = back.extra_entry_points,
                                    ![GenAddr] = IF held THEN lists[here] ELSE @]
          /\ gen' = IF held THEN [gen EXCEPT !.ref = GenAddr] ELSE gen
          /\ PLUGIN_CACHE' = back.PLUGIN_CACHE
          /\ stack' = rest
          /\ dicts' = Restrict(dicts, LiveDicts(back.PLUGIN_CACHE, rest))
          /\ last' = [Call("exit", frame.cls, frame.identifier, "None", "None", how,
                           frame.entry_point.loads)
                        EXCEPT !.pre_extras = frame.pre_extras,
                               !.pre_cache = frame.pre_cache]
    /\ returned' = EmptyDict
    /\ UNCHANGED plugin_name

\* ------------------------------------------------------------- load_classes

\* cls.load_classes(fail_silently): a generator function, so the call runs
\* none of the body and gives the generator.
LoadClasses(cls, fail_silently) ==
    /\ gen' = [NoGen EXCEPT !.status = "new", !.cls = cls, !.fail_silently = fail_silently]
    /\ lists' = Collect(lists, gen')
    /\ last' = Call("load_classes", cls, <<>>, "None", "None", "None", "None")
    /\ UNCHANGED <<dicts, PLUGIN_CACHE, own, plugin_name, stack, returned>>

\* The candidates the generator has not taken yet: the rest of
\* iter_entry_points(cls.entry_point), then the rest of the list its list
\* iterator is bound to, as that list is now.
Remaining(g, ref) ==
    LET installed == iter_entry_points(entry_point(g.cls), <<>>)
        extra     == lists[ref]
    IN SubSeq(installed, g.pos + 1, Len(installed))
       \o [i \in 1..(Len(extra) - g.idx) |-> extra[g.idx + i].entry_point]

\* A loop that takes one candidate and, when it fails to load, ends whatever
\* fail_silently is.
TakenUpToFailure(rem, fail_silently) ==
    IF rem = <<>> THEN 0 ELSE 1

\* How many of the remaining candidates one next() takes: up to and including
\* the first whose load succeeds, stopping at a failing one when
\* fail_silently is off; all of them when it yields nothing.
Taken(rem, fail_silently) ==
    LET stops == {k \in 1..Len(rem) : rem[k].loads # "ImportError" \/ ~fail_silently}
    IN IF stops = {} THEN Len(rem) ELSE CHOOSE k \in stops : \A j \in stops : k <= j

\* next() on the generator.  The first next() runs the body up to the first
\* yield: it builds the chain, which binds a list iterator to the list
\* cls.extra_entry_points is at that moment.
GenNext ==
    /\ gen.status \in {"new", "open"}
    /\ LET ref       == IF gen.status = "new" THEN ExtraRef(gen.cls) ELSE gen.ref
           installed == iter_entry_points(entry_point(gen.cls), <<>>)
           rem       == Remaining(gen, ref)
           k         == Taken(rem, gen.fail_silently)
           took      == SubSeq(rem, 1, k)
           fromInst  == IF k <= Len(installed) - gen.pos THEN k ELSE Len(installed) - gen.pos
           g1        == [gen EXCEPT !.pos = gen.pos + fromInst,
                                    !.idx = gen.idx + (k - fromInst),
                                    !.seen = gen.seen \o took]
           loaded    == IF k = 0 THEN [ok |-> FALSE, class_ |-> "None", names |-> plugin_name]
                        ELSE _load_class_entry_point(rem[k], plugin_name)
       IN IF k > 0 /\ loaded.ok
          THEN /\ gen' = [g1 EXCEPT !.status = "open", !.ref = ref,
                                    !.out = Append(gen.out, <<rem[k].name, loaded.class_>>)]
               /\ plugin_name' = loaded.names
               /\ last' = Call("next", gen.cls, rem[k].name, "None", "None", "yield",
                               loaded.class_)
          ELSE IF k > 0 /\ ~gen.fail_silently
          THEN /\ gen' = [g1 EXCEPT !.status = "raised", !.ref = NoAddr]
               /\ plugin_name' = plugin_name
               /\ last' = Call("next", gen.cls, rem[k].name, "None", "None", "ImportError",
                               "None")
          ELSE /\ gen' = [g1 EXCEPT !.status = "done", !.ref = NoAddr,
                                    !.all = gen.seen \o rem]
               /\ plugin_name' = plugin_name
               /\ last' = Call("next", gen.cls, <<>>, "None", "None", "StopIteration", "None")
    /\ lists' = Collect(lists, gen')
    /\ UNCHANGED <<dicts, PLUGIN_CACHE, own, stack, returned>>

\* next() on a generator that has returned or raised: StopIteration.
GenAfter ==
    /\ gen.status \in {"done", "raised"}
    /\ last' = Call("next", gen.cls, <<>>, "None", "None", "StopIteration", "None")
    /\ UNCHANGED <<dicts, PLUGIN_CACHE, lists, own, plugin_name, stack, gen, returned>>

\* --------------------------------------------------------- specifications

Hows == {"return", "raise"}

\* Lookups: load_class on installed entry points that resolve, are missing or
\* load a class of the wrong type, in several spellings, outside and inside a
\* scope that registers a class under its default identifier or under an
\* identifier the caller gives.
LookupIdents == {<<"h">>, <<"H">>, <<"t">>, <<"m">>, <<"a">>, <<"A">>}
LookupTempIdents == {"None", <<"A">>}

Next ==
    \/ \E identifier \in LookupIdents : LoadClass("XBlock", identifier, "None", "None")
    \/ /\ Len(stack) < LookupDepth
       /\ \E identifier \in LookupTempIdents : Enter("XBlock", "A", identifier)
    \/ \E how \in Hows : Exit(how)

Spec == Init /\ [][Next]_vars

\* The cases of selection: identifiers that are missing, ambiguous or fail to
\* load, with and without a default and a selector of the caller's, outside
\* and inside a scope that registers a class under an identifier the caller
\* gives.
CaseIdents == {<<"m">>, <<"d">>, <<"x">>}
CaseTempIdents == {<<"m">>, <<"d">>, <<"x">>}

NextCases ==
    \/ \E identifier \in CaseIdents, default \in {"None", "DefaultBlock"},
          select \in Selectors : LoadClass("XBlock", identifier, default, select)
    \/ /\ Len(stack) < LookupDepth
       /\ \E identifier \in CaseTempIdents : Enter("XBlock", "A", identifier)
    \/ \E how \in Hows : Exit(how)

SpecCases == Init /\ [][NextCases]_vars

\* Scopes on a class and on a subclass of it: register_temp_plugin with the
\* default identifier, load_class inside and outside the scopes.
ScopeClasses == {"XBlock", "SubBlock"}
ScopeIdents == {<<"a">>, <<"h">>}

NextScope ==
    \/ \E identifier \in ScopeIdents : LoadClass("XBlock", identifier, "None", "None")
    \/ /\ Len(stack) < MaxDepth
       /\ \E cls \in ScopeClasses : Enter(cls, "A", "None")
    \/ \E how \in Hows : Exit(how)

SpecScope == Init /\ [][NextScope]_vars

\* Nested scopes on one class: two temporary classes, registered under their
\* default identifiers.
NestedIdents == {<<"a">>, <<"b">>, <<"h">>}

NextNested ==
    \/ \E identifier \in NestedIdents : LoadClass("XBlock", identifier, "None", "None")
    \/ /\ Len(stack) < MaxDepth
       /\ \E class_ \in {"A", "B"} : Enter("XBlock", class_, "None")
    \/ \E how \in Hows : Exit(how)

SpecNested == Init /\ [][NextNested]_vars

\* Enumeration: load_classes generators, with and without fail_silently,
\* consumed outside and inside a scope.
NextEnum ==
    \/ \E fail_silently \in BOOLEAN : LoadClasses("XBlock", fail_silently)
    \/ GenNext
    \/ GenAfter
    \/ /\ Len(stack) < LookupDepth
       /\ \E class_ \in {"A", "B"} : Enter("XBlock", class_, "None")
    \/ \E how \in Hows : Exit(how)

SpecEnum == Init /\ [][NextEnum]_vars

\* Registries that share the cache: load_class through a class, a subclass of
\* it and a class of another entry point group, and scopes on either group.
SharedLookups ==
    {<<"XBlock", <<"h">>>>, <<"SubBlock", <<"h">>>>, <<"SubBlock", <<"a">>>>,
     <<"XBlockAside", <<"s">>>>}
SharedScopeClasses == {"XBlock", "XBlockAside"}

NextShared ==
    \/ \E lookup \in SharedLookups : LoadClass(lookup[1], lookup[2], "None", "None")
    \/ /\ Len(stack) < LookupDepth
       /\ \E cls \in SharedScopeClasses : Enter(cls, "A", "None")
    \/ \E how \in Hows : Exit(how)

SpecShared == Init /\ [][NextShared]_vars

\* One class under two names: a scope registers an installed class under
\* another identifier; load_class of both names, through the class and
\* through a subclass of it, and load_classes.
NameLookups == {<<"XBlock", <<"h">>>>, <<"XBlock", <<"k">>>>, <<"SubBlock", <<"h">>>>}

NextNames ==
    \/ \E lookup \in NameLookups : LoadClass(lookup[1], lookup[2], "None", "None")
    \/ LoadClasses("XBlock", TRUE)
    \/ GenNext
    \/ GenAfter
    \/ /\ Len(stack) < LookupDepth
       /\ Enter("XBlock", "HtmlBlock", <<"k">>)
    \/ \E how \in Hows : Exit(how)

SpecNames == Init /\ [][NextNames]_vars

\* ------------------------------------------------------------------ claims

IsLoad == last.op = "load_class"

\* What the latest load_class call looked up.
LastKey == CacheKey(last.cls, last.identifier)

\* The candidates of the latest load_class call.
LastCandidates == all_entry_points_of(last.cls, LastKey[2], Extras(last.cls))

\* C1: right after a register_temp_plugin scope exits, by return or by raise,
\* the content of the class's extra_entry_points and the content of
\* PLUGIN_CACHE are what they were right before the scope was entered.
C1_RoundTrip ==
    last.op = "exit" =>
        /\ Extras(last.cls) = last.pre_extras
        /\ Cache = last.pre_cache

\* A scope that was entered inside another scope, with a class resolved and
\* cached before it, exits by raising.
C1_Witness ==
    /\ last.op = "exit"
    /\ last.outcome = "raise"
    /\ last.pre_extras # <<>>
    /\ last.pre_cache # EmptyDict

\* The identifiers the active scopes on a class registered, outermost first.
ActiveOn(cls) ==
    SelectSeq(stack, LAMBDA f : f.cls = cls)

C4_TypeMismatchWritesNothing ==
    (IsLoad /\ last.outcome = "TypeError") => Cache = last.before

\* The class that defines the entry point group: the registry the category
\* belongs to.
Owner(group) ==
    CASE group = "xblock.v1"        -> "XBlock"
      [] group = "xblock_asides.v1" -> "XBlockAside"

\* C10: every class stored in a cache dict is a subclass of the registry class
\* of the key's entry point group.
C10_CacheHoldsSubclasses ==
    \A a \in DOMAIN dicts : \A key \in DOMAIN dicts[a] :
        issubclass(dicts[a][key], Owner(key[1]))

\* C7: spellings of an identifier that differ only in case give the same key,
\* and load_class ends the same way, returns the same class and leaves the
\* same cache for each of them.
C7_SpellingsAgree ==
    IsLoad =>
        \A other \in LookupIdents :
            lower(other) = lower(last.identifier) =>
                LET r == load_class(last.cls, other, last.default, last.select,
                                    last.before, Extras(last.cls), plugin_name)
                IN /\ CacheKey(last.cls, other) = LastKey
                   /\ r.outcome = last.outcome
                   /\ r.result = last.result
                   /\ r.cache = Cache

\* load_class of an upper-case spelling found nothing cached, returned the
\* installed class and stored it under the lower-case key.
C7_Witness ==
    /\ IsLoad
    /\ last.identifier = <<"H">>
    /\ last.outcome = "return"
    /\ last.result = "HtmlBlock"
    /\ <<"xblock.v1", <<"h">>>> \notin DOMAIN last.before
    /\ <<"xblock.v1", <<"h">>>> \in DOMAIN Cache

\* C8: inside a scope, load_class of any spelling of the identifier the scope
\* registered (no installed entry point has that name) returns the class the
\* scope registered.
C8_OverrideIdentifierAnySpelling ==
    (/\ IsLoad
     /\ Len(stack) = 1
     /\ stack[1].cls = last.cls
     /\ lower(stack[1].identifier) = lower(last.identifier)
     /\ iter_entry_points(entry_point(last.cls), lower(last.identifier)) = <<>>)
        => (last.outcome = "return" /\ last.result = stack[1].entry_point.loads)

\* C5: when an identifier has no candidate and is not cached, load_class
\* raises PluginMissingError without a default, returns the default when
\* there is one, and stores nothing; when it has one candidate that loads, and
\* is not cached, load_class gives that candidate's class, not the default.
C5_ZeroCandidates ==
    (IsLoad /\ ~InCache(LastKey, last.before)) =>
        /\ LastCandidates = <<>> =>
              /\ last.default = "None" => last.outcome = "PluginMissingError"
              /\ last.default # "None" =>
                    (last.outcome = "return_default" /\ last.result = last.default)
              /\ Cache = last.before
        /\ (Len(LastCandidates) = 1 /\ LastCandidates[1].loads # "ImportError") =>
              /\ last.outcome \in {"return", "TypeError"}
              /\ last.result = LastCandidates[1].loads

\* load_class of a missing identifier returned the caller's default, with a
\* class cached for another identifier, and stored nothing.
C5_Witness ==
    /\ IsLoad
    /\ LastCandidates = <<>>
    /\ last.outcome = "return_default"
    /\ last.result = "DefaultBlock"
    /\ Cache # EmptyDict
    /\ Cache = last.before

\* C6: when an identifier has two candidates and is not cached, load_class
\* with the default selector raises AmbiguousPluginError naming the classes
\* of those two candidates, after calling iter_entry_points, and stores
\* nothing.
C6_AmbiguityRaises ==
    (/\ IsLoad
     /\ last.select = "None"
     /\ ~InCache(LastKey, last.before)
     /\ Len(LastCandidates) = 2
     /\ LastCandidates[1] # LastCandidates[2])
        => /\ last.outcome = "AmbiguousPluginError"
           /\ last.queried
           /\ last.payload.name = LastKey[2]
           /\ last.payload.classes = <<LastCandidates[1].loads, LastCandidates[2].loads>>
           /\ Cache = last.before

\* The (name, class) pairs of candidates.
Pairs(candidates) ==
    [i \in 1..Len(candidates) |-> <<candidates[i].name, candidates[i].loads>>]

Loads(candidate) == candidate.loads # "ImportError"

\* C9: a load_classes generator takes the installed entry points, then the
\* extra ones, in order.  With fail_silently it yields the pairs of exactly
\* the candidates that load, never raises, and returns only when it has taken
\* every candidate.  Without fail_silently it yields the pairs of the
\* candidates before the first one that fails, raises at that one, and yields
\* nothing after.
C9_EnumerationFailures ==
    gen.status \in {"open", "done", "raised"} =>
        LET installed == iter_entry_points(entry_point(gen.cls), <<>>)
            failing   == {i \in 1..Len(gen.seen) : ~Loads(gen.seen[i])}
        IN /\ SubSeq(gen.seen, 1, gen.pos) = SubSeq(installed, 1, gen.pos)
           /\ Len(gen.seen) = gen.pos + gen.idx
           /\ gen.idx > 0 => gen.pos = Len(installed)
           /\ gen.ref # NoAddr =>
                 SubSeq(gen.seen, gen.pos + 1, Len(gen.seen)) =
                     [i \in 1..gen.idx |-> lists[gen.ref][i].entry_point]
           /\ gen.status = "done" => gen.seen = gen.all
           /\ gen.fail_silently =>
                 /\ gen.status # "raised"
                 /\ gen.out = Pairs(SelectSeq(gen.seen, Loads))
           /\ ~gen.fail_silently =>
                 IF failing = {}
                 THEN gen.status # "raised" /\ gen.out = Pairs(gen.seen)
                 ELSE /\ gen.status = "raised"
                      /\ failing = {Len(gen.seen)}
                      /\ gen.out = Pairs(SubSeq(gen.seen, 1, Len(gen.seen) - 1))
           /\ (last.op = "next" /\ gen.status \in {"done", "raised"}) =>
                 last.outcome \in {"StopIteration", "ImportError"}

\* A generator with fail_silently has passed the installed entry point that
\* fails to load, yielded the class a scope registered, and returned.
C9_Witness ==
    /\ gen.status = "done"
    /\ gen.fail_silently
    /\ \E i \in 1..Len(gen.seen) : ~Loads(gen.seen[i])
    /\ Len(gen.out) = Len(gen.seen) - 1
    /\ gen.out[Len(gen.out)] = <<<<"a">>, "A">>

\* C11: once every scope has exited, the extra_entry_points of every class is
\* empty, as it was before the first scope, and load_class of an identifier
\* that is not installed raises PluginMissingError.
C11_NothingOutlivesScopes ==
    stack = <<>> =>
        /\ \A cls \in Classes : Extras(cls) = <<>>
        /\ (IsLoad /\ iter_entry_points(entry_point(last.cls), LastKey[2]) = <<>>) =>
              last.outcome = "PluginMissingError"

\* C12: right after a scope is entered on any class PLUGIN_CACHE is empty, for
\* every entry point group, and it is a dict other than the ones the active
\* scopes found; inside a scope, a load_class of a key that has not been
\* stored since the entry, even one that was cached before the entry and
\* belongs to another group, calls iter_entry_points and selects again.
C12_EntryEmptiesCache ==
    /\ last.op = "enter" => Cache = EmptyDict
    /\ \A i \in 1..Len(stack) : PLUGIN_CACHE # stack[i].old_cache
    /\ (IsLoad /\ stack # <<>> /\ LastKey \notin DOMAIN last.before) => last.queried

\* Inside a scope on XBlock, load_class through XBlockAside of an identifier
\* that was cached before the scope was entered queries again.
C12_Witness ==
    /\ IsLoad
    /\ Len(stack) = 1
    /\ stack[1].cls = "XBlock"
    /\ last.cls = "XBlockAside"
    /\ LastKey \in DOMAIN stack[1].pre_cache
    /\ last.queried
    /\ last.outcome = "return"

\* C13: when load_class returns a class, from a fresh load or from the cache,
\* the plugin_name of the class is the name of the candidate selected for the
\* identifier, which is the lower-cased identifier.
C13_NameOfReturnedClass ==
    (IsLoad /\ last.outcome = "return") => plugin_name[last.result] = LastKey[2]

\* C14: a step of load_class or of load_classes (the call, a next()) leaves
\* PLUGIN_CACHE bound to the same dict, leaves every key that dict holds with
\* the value it has, and leaves the other dicts as they are: entries are
\* removed or replaced only when a scope is entered or exited.
C14_WriteOnce ==
    [][last'.op \in {"load_class", "load_classes", "next"} =>
          /\ PLUGIN_CACHE' = PLUGIN_CACHE
          /\ DOMAIN dicts' = DOMAIN dicts
          /\ \A a \in DOMAIN dicts \ {PLUGIN_CACHE} : dicts'[a] = dicts[a]
          /\ \A k \in DOMAIN Cache : k \in DOMAIN Cache' /\ Cache'[k] = Cache[k]]_vars

\* Inside a scope, with a generator under way, load_class through a subclass
\* hit an entry stored through the class, raised TypeError and left the entry.
C14_Witness ==
    /\ IsLoad
    /\ stack # <<>>
    /\ gen.out # <<>>
    /\ LastKey \in DOMAIN last.before
    /\ last.outcome = "TypeError"
    /\ Cache = last.before

\* C15: inside a scope that registered an identifier of which there is an
\* installed entry point too, load_class of it with the default selector, not
\* cached since the entry, raises AmbiguousPluginError, whatever was cached
\* before the entry; right after the exit every key cached before the entry
\* resolves, as a hit, to the class it was cached with.
C15_InjectedCompetes ==
    /\ (/\ IsLoad
         /\ last.select = "None"
         /\ stack # <<>>
         /\ stack[Len(stack)].cls = last.cls
         /\ stack[Len(stack)].identifier = LastKey[2]
         /\ iter_entry_points(entry_point(last.cls), LastKey[2]) # <<>>
         /\ LastKey \notin DOMAIN last.before)
            => last.outcome = "AmbiguousPluginError"
    /\ last.op = "exit" =>
          \A key \in DOMAIN last.pre_cache :
              LET r == load_class(last.cls, key[2], "None", "None", Cache,
                                  Extras(last.cls), plugin_name)
              IN r.outcome = "return" /\ r.result = last.pre_cache[key] /\ ~r.queried

\* C16: a load_class that finds a class, by loading it or in the cache, returns
\* it when it is a subclass of the class load_class was called on and raises
\* TypeError when it is not; so whatever it returns, other than the default,
\* is a subclass of that class.
C16_ReturnedTypeSafe ==
    IsLoad =>
        /\ last.outcome = "return" =>
              /\ issubclass(last.result, last.cls)
              /\ Cache[LastKey] = last.result
        /\ last.outcome = "TypeError" => ~issubclass(last.result, last.cls)
        /\ (LastKey \in DOMAIN Cache /\ ~issubclass(Cache[LastKey], last.cls)) =>
              last.outcome = "TypeError"

\* load_class through SubBlock hit the entry a call through XBlock stored,
\* a class that is no subclass of SubBlock, and raised TypeError.
C16_Witness ==
    /\ IsLoad
    /\ last.cls = "SubBlock"
    /\ ~last.queried
    /\ <<"XBlock", LastKey[2]>> \in DOMAIN returned
    /\ <<"SubBlock", LastKey[2]>> \notin DOMAIN returned
    /\ last.result = "HtmlBlock"
    /\ last.outcome = "TypeError"

\* C17: when the key of a load_class call is in PLUGIN_CACHE, the call gives
\* the cached class without calling iter_entry_points and leaves the cache as
\* it is, and it would end the same way with any other selector: the selector
\* is not consulted, even when several candidates match the identifier.
C17_SelectorIndependent ==
    (IsLoad /\ LastKey \in DOMAIN last.before) =>
        /\ ~last.queried
        /\ last.result = last.before[LastKey]
        /\ last.outcome = "return"
        /\ Cache = last.before
        /\ \A select \in Selectors :
              LET r == load_class(last.cls, last.identifier, last.default, select,
                                  last.before, Extras(last.cls), plugin_name)
              IN r.outcome = last.outcome /\ r.result = last.result /\ ~r.queried

\* load_class with the default selector returned, from the cache, the class a
\* caller's selector chose earlier among several candidates.
C17_Witness ==
    /\ IsLoad
    /\ last.select = "None"
    /\ Len(LastCandidates) > 1
    /\ last.outcome = "return"
    /\ last.result = "DupOne"
    /\ last.prior = "DupOne"
    /\ ~last.queried

\* C18: a next() on a load_classes generator, with no scope active, does not
\* yield a class that only a scope registered, whether the generator was
\* first consumed inside a scope or after it.
C18_NoInjectedAfterExit ==
    (last.op = "next" /\ last.outcome = "yield" /\ stack = <<>>) =>
        \E i \in 1..Len(Installed(entry_point(last.cls))) :
            /\ Installed(entry_point(last.cls))[i].name = last.identifier
            /\ Installed(entry_point(last.cls))[i].loads = last.result

====
